---- MODULE Spec2Model ----
(***************************************************************************)
(* Model of the AI poem generator: the command-line script poem_bot.py     *)
(* (generate_poem and its __main__ flow) and the Streamlit form            *)
(* app_streamlit.py (load_generator_pipeline, generate_poem_for_streamlit  *)
(* and the button handler).                                                *)
(*                                                                         *)
(* Text is modelled as a sequence of one-character strings, so that        *)
(* len(), slicing, strip(), split() and the "in" test are computed the way *)
(* Python computes them.                                                   *)
(***************************************************************************)
EXTENDS Integers, Sequences, FiniteSets, TLC

VARIABLES
    program,  \* which program this process runs
    cache,    \* st.cache_resource store of the process: model names loaded
    loads,    \* executions of pipeline(...) in the process so far
    rng,      \* process-wide random state, the one set_seed overwrites
    run,      \* the last script run / call: its inputs, the calls it made, its result
    ui,       \* what the last Streamlit script run rendered
    stdout,   \* what the last run or call printed
    thr,      \* concurrent invocations of generate_poem_for_streamlit
    norm      \* the output normaliser applied to given raw generated strings

vars == <<program, cache, loads, rng, run, ui, stdout, thr, norm>>

(***************************************************************************)
(* Bounds of the model.                                                    *)
(***************************************************************************)
MaxTail == 5      \* longest generated continuation enumerated exhaustively
MaxRaws == 2      \* longest list of raw generated strings enumerated
MaxLoads == 2     \* pipeline(...) executions followed per process
RngMod == 1009    \* size of the random state space

(***************************************************************************)
(* Text literals of the source.                                            *)
(***************************************************************************)
PromptHead == <<"C", "o", "m", "p", "o", "s", "e", " ", "a", " ", "s", "h", "o", "r", "t", ",", " ", "c", "r", "e", "a", "t", "i", "v", "e", " ", "p", "o", "e", "m", " ", "a", "b", "o", "u", "t", " ">>
PromptTail == <<":", "\n", "\n">>
ErrorPrefix == <<"E", "r", "r", "o", "r", " ", "g", "e", "n", "e", "r", "a", "t", "i", "n", "g", " ", "p", "o", "e", "m", ":", " ">>
PipelineMissing == <<"E", "r", "r", "o", "r", ":", " ", "M", "o", "d", "e", "l", " ", "p", "i", "p", "e", "l", "i", "n", "e", " ", "n", "o", "t", " ", "a", "v", "a", "i", "l", "a", "b", "l", "e", ".">>
ErrorMarker == <<"E", "r", "r", "o", "r">>
LabelHead == <<"-", "-", "-", " ", "P", "o", "e", "m", " ">>
LabelTail == <<" ", "-", "-", "-", "\n">>
DoubleNewline == <<"\n", "\n">>

(***************************************************************************)
(* Python string operations.                                               *)
(***************************************************************************)
\* The characters str.strip() and str.split() treat as whitespace, as far as
\* they can be written here (Python adds \v, \x1c-\x1f and the Unicode spaces).
Whitespace == {" ", "\n", "\t", "\r", "\f"}

\* s[k:]
Slice(s, k) == IF k >= Len(s) THEN <<>> ELSE SubSeq(s, k + 1, Len(s))

RECURSIVE LStrip(_)
LStrip(s) ==
    IF s = <<>> THEN s
    ELSE IF Head(s) \in Whitespace THEN LStrip(Tail(s)) ELSE s

RECURSIVE RStrip(_)
RStrip(s) ==
    IF s = <<>> THEN s
    ELSE IF s[Len(s)] \in Whitespace THEN RStrip(SubSeq(s, 1, Len(s) - 1)) ELSE s

\* s.strip()
Strip(s) == RStrip(LStrip(s))

\* s.split("\n\n")[0]: the text before the first "\n\n", scanning from the left.
RECURSIVE SplitFirst(_)
SplitFirst(s) ==
    IF Len(s) < 2 THEN s
    ELSE IF s[1] = "\n" /\ s[2] = "\n" THEN <<>>
    ELSE <<Head(s)>> \o SplitFirst(Tail(s))

\* len(s.split()): the number of maximal runs of non-whitespace characters.
SplitCount(s) ==
    Cardinality({i \in 1..Len(s) :
        /\ s[i] \notin Whitespace
        /\ (i = 1 \/ s[i - 1] \in Whitespace)})

\* sub in s
Contains(sub, s) ==
    \E i \in 0..(Len(s) - Len(sub)) : SubSeq(s, i + 1, i + Len(sub)) = sub

\* s.count(c) for a single character c
Count(s, c) == Cardinality({i \in 1..Len(s) : s[i] = c})

Lower == <<"a", "b", "c", "d", "e", "f", "g", "h", "i", "j", "k", "l", "m", "n", "o", "p", "q", "r", "s", "t", "u", "v", "w", "x", "y", "z">>
Upper == <<"A", "B", "C", "D", "E", "F", "G", "H", "I", "J", "K", "L", "M", "N", "O", "P", "Q", "R", "S", "T", "U", "V", "W", "X", "Y", "Z">>

ToUpper(c) == IF \E k \in 1..26 : Lower[k] = c
              THEN Upper[CHOOSE k \in 1..26 : Lower[k] = c] ELSE c
ToLower(c) == IF \E k \in 1..26 : Upper[k] = c
              THEN Lower[CHOOSE k \in 1..26 : Upper[k] = c] ELSE c

\* s.capitalize(): first character upper-cased, the rest lower-cased.
Capitalize(s) ==
    [i \in 1..Len(s) |-> IF i = 1 THEN ToUpper(s[i]) ELSE ToLower(s[i])]

Digits == <<"0", "1", "2", "3", "4", "5", "6", "7", "8", "9">>

\* The decimal text of a natural number, as an f-string formats it.
RECURSIVE Str(_)
Str(n) == IF n < 10 THEN <<Digits[n + 1]>> ELSE Str(n \div 10) \o <<Digits[(n % 10) + 1]>>

(***************************************************************************)
(* Prompt builder and output normaliser.                                   *)
(***************************************************************************)
\* f"Compose a short, creative poem about {topic}:\n\n"
Prompt(topic) == PromptHead \o topic \o PromptTail

\* A variant of the normaliser that cuts at the double newline first and
\* trims afterwards.
PoemTextSplitThenStrip(prompt, output) ==
    Strip(SplitFirst(Slice(output.generated_text, Len(prompt))))

\* A variant of the normaliser that does not trim.
PoemTextNoStrip(prompt, output) ==
    SplitFirst(Slice(output.generated_text, Len(prompt)))

\* output['generated_text'][len(prompt):].strip() followed by .split("\n\n")[0]
PoemText(prompt, output) ==
    SplitFirst(Strip(Slice(output.generated_text, Len(prompt))))

\* The loop of generate_poem_for_streamlit: one cleaned poem per output, in order.
StreamlitPoems(prompt, generated_texts) ==
    [i \in 1..Len(generated_texts) |-> PoemText(prompt, generated_texts[i])]

\* The loop of generate_poem: the label line of poem i+1 (i counted from 0 in
\* the source, from 1 here), then the cleaned poem.
CliPoems(prompt, generated_texts) ==
    [i \in 1..Len(generated_texts) |->
        LabelHead \o Str(i) \o LabelTail \o PoemText(prompt, generated_texts[i])]

(***************************************************************************)
(* More text literals of the source, and the inputs the model draws.       *)
(***************************************************************************)
Gpt2 == <<"g", "p", "t", "2">>
Welcome == <<"W", "e", "l", "c", "o", "m", "e", " ", "t", "o", " ", "t", "h", "e", " ", "G", "e", "n", "e", "r", "a", "t", "i", "v", "e", " ", "A", "I", " ", "P", "o", "e", "m", " ", "C", "r", "e", "a", "t", "o", "r", "!">>
NoTopic == <<"N", "o", " ", "t", "o", "p", "i", "c", " ", "p", "r", "o", "v", "i", "d", "e", "d", ".", " ", "E", "x", "i", "t", "i", "n", "g", ".">>
LoadedHead == <<"M", "o", "d", "e", "l", " ", "'">>
LoadedTail == <<"'", " ", "l", "o", "a", "d", "e", "d", ".", " ", "G", "e", "n", "e", "r", "a", "t", "i", "n", "g", " ", "p", "o", "e", "m", ".", ".", ".">>
LoadingHead == <<"L", "o", "a", "d", "i", "n", "g", " ", "m", "o", "d", "e", "l", ":", " ">>
LoadingTail == <<".", ".", ".">>
LoadedOkTail == <<"'", " ", "l", "o", "a", "d", "e", "d", " ", "s", "u", "c", "c", "e", "s", "s", "f", "u", "l", "l", "y", " ", "o", "n", " ">>
OnCpu == <<"C", "P", "U", ".">>
FatalHead == <<"F", "a", "t", "a", "l", " ", "E", "r", "r", "o", "r", ":", " ", "C", "o", "u", "l", "d", " ", "n", "o", "t", " ", "l", "o", "a", "d", " ", "m", "o", "d", "e", "l", " ", "'">>
FatalMid == <<"'", ".", " ", "E", "x", "c", "e", "p", "t", "i", "o", "n", ":", " ">>
WarningText == <<"P", "l", "e", "a", "s", "e", " ", "e", "n", "t", "e", "r", " ", "a", " ", "t", "o", "p", "i", "c", " ", "f", "o", "r", " ", "y", "o", "u", "r", " ", "p", "o", "e", "m", ".">>
\* the subheader's text after its leading pictograph
SubheaderHead == <<" ", "Y", "o", "u", "r", " ", "P", "o", "e", "m", "(", "s", ")", " ", "a", "b", "o", "u", "t", " ", "'">>
PoemMarkHead == <<"-", "-", "-", " ", "*", "*", "P", "o", "e", "m", " ">>
PoemMarkTail == <<"*", "*", " ", "-", "-", "-">>
Separator == <<"-", "-", "-">>
PoemOutput == <<"P", "o", "e", "m", " ", "O", "u", "t", "p", "u", "t">>

\* Continuations the pretrained model can produce after the echoed prompt.
ExampleTail == <<"H", "e", "l", "l", "o", " ", "w", "o", "r", "l", "d", "\n", "\n", "E", "x", "t", "r", "a", " ", "s", "t", "a", "n", "z", "a">>
HelloWorld == <<"H", "e", "l", "l", "o", " ", "w", "o", "r", "l", "d">>
ErrorOfMyWays == <<"E", "r", "r", "o", "r", " ", "o", "f", " ", "m", "y", " ", "w", "a", "y", "s">>
SeaTail == <<" ", " ", "T", "h", "e", " ", "s", "e", "a", " ", "\n", "\n", "m", "o", "r", "e">>
RiverTail == <<"r", "i", "v", "e", "r", " ", "r", "u", "n", "s", "\n", "t", "o", " ", "s", "e", "a", "\n">>
TideTail == <<"\t", "T", "i", "d", "e", "\n", "\n", "\n", "e", "b", "b">>
Pool == <<ExampleTail, ErrorOfMyWays, SeaTail, RiverTail, TideTail>>

\* str(e) of the exceptions the environment can raise.
Oom == <<"C", "U", "D", "A", " ", "o", "u", "t", " ", "o", "f", " ", "m", "e", "m", "o", "r", "y">>
KeyErr == <<"'", "g", "e", "n", "e", "r", "a", "t", "e", "d", "_", "t", "e", "x", "t", "'">>
NoModel == <<"g", "p", "t", "2", " ", "i", "s", " ", "n", "o", "t", " ", "a", " ", "v", "a", "l", "i", "d", " ", "m", "o", "d", "e", "l", " ", "i", "d", "e", "n", "t", "i", "f", "i", "e", "r">>

Sea == <<"t", "h", "e", " ", "s", "e", "a">>
Owl == <<"o", "w", "l">>
Topics == {<<>>, Sea, Owl}            \* the empty topic and two non-empty ones
MaxLens == {30, 60}                   \* slider 30..150, default 60
Temperatures == {70, 100}             \* slider 0.5..1.0 in hundredths, default 0.7
NumPoemsMax == 5                      \* number_input 1..5
SeedValues == {0, 42}                 \* number_input 0..1000, default 42
FreshRng == {1, 2}                    \* random state of a process nobody seeded
DefaultSeed == 42                     \* set_seed(42) of poem_bot.py
NumBeams == 5                         \* num_beams=5
MinLenBase == 10                      \* min_length=10 + ...
CliTemperature == 70                  \* temperature=0.7 of poem_bot.py
MainMaxLen == 60                      \* max_len=60 of the __main__ call
MainNumPoems == 1                     \* num_poems=1 of the __main__ call

NoFault == [at |-> "none", detail |-> <<>>]
LoadFaults == {[at |-> "load", detail |-> NoModel]}
GenFaults == {[at |-> "call", detail |-> Oom], [at |-> "post", detail |-> KeyErr]}

(***************************************************************************)
(* The external collaborators: set_seed and the text-generation pipeline.  *)
(***************************************************************************)
\* A set_seed that leaves the process-wide random state as it was.
SetSeedForgotten(r, seed_value) == r

\* A set_seed that is always given the seed of poem_bot.py.
SetSeedDefault(r, seed_value) == DefaultSeed % RngMod

\* transformers.set_seed(seed_value): overwrites the process-wide random state.
set_seed(r, seed_value) == seed_value % RngMod

\* The random state after a generation consumed random numbers.
Advance(r) == (r * 7 + 1) % RngMod

\* A call that always asks for a single sequence.
GeneratorArgsSingle(prompt, max_len, num_poems, num_beams, temperature) ==
    [prompt |-> prompt,
     max_length |-> max_len + SplitCount(prompt),
     min_length |-> MinLenBase + SplitCount(prompt),
     num_return_sequences |-> 1,
     num_beams |-> num_beams,
     no_repeat_ngram_size |-> 2,
     early_stopping |-> TRUE,
     temperature |-> temperature]

\* The arguments both functions pass to the pipeline call.
GeneratorArgs(prompt, max_len, num_poems, num_beams, temperature) ==
    [prompt |-> prompt,
     max_length |-> max_len + SplitCount(prompt),
     min_length |-> MinLenBase + SplitCount(prompt),
     num_return_sequences |-> num_poems,
     num_beams |-> num_beams,
     no_repeat_ngram_size |-> 2,
     early_stopping |-> TRUE,
     temperature |-> temperature]

\* The pipeline call: a function of the current random state and the
\* arguments; it returns num_return_sequences outputs, each the echoed prompt
\* followed by a continuation.
Generator(r, a) ==
    [i \in 1..a.num_return_sequences |->
        [generated_text |-> a.prompt \o
            Pool[((r + Len(a.prompt) + a.max_length + a.min_length + a.num_beams
                     + a.no_repeat_ngram_size + a.temperature + i) % Len(Pool)) + 1]]]

(***************************************************************************)
(* generate_poem_for_streamlit and generate_poem.                          *)
(***************************************************************************)
Handle(model_name) == [model |-> model_name]
None == [model |-> <<>>]

\* except Exception as e: return [f"Error generating poem: {e}"]
ErrorResult(detail) == <<ErrorPrefix \o detail>>

\* A try block that ends before the loop over the outputs.
TryCoversCallOnly(at) == at = "call"

\* A try block that starts after the load.
TryCoversGenerationOnly(at) == at \in {"call", "post"}

\* The steps of generate_poem_for_streamlit inside its try block.
StTryCovers(at) == at \in {"call", "post"}

\* The steps of generate_poem inside its try block: the load is one of them.
CliTryCovers(at) == at \in {"load", "call", "post"}

\* What an invocation hands back: the result sequence (when it returned), the
\* random state it leaves, the calls it made and what it wrote to the console.
Outcome(returned, poems, r, loadCalls, seedCalls, genCalls, raised, propagated, console) ==
    [returned |-> returned, poems |-> poems, rng |-> r, loadCalls |-> loadCalls,
     seedCalls |-> seedCalls, genCalls |-> genCalls, raised |-> raised,
     propagated |-> propagated, console |-> console]

\* An exception raised at step `at` of a try block that covers `covered`.
Raise(covered, fault, r, loadCalls, seedCalls, genCalls, console) ==
    IF covered
    THEN Outcome(TRUE, ErrorResult(fault.detail), r, loadCalls, seedCalls, genCalls,
                 TRUE, FALSE, console)
    ELSE Outcome(FALSE, <<>>, r, loadCalls, seedCalls, genCalls, TRUE, TRUE, console)

\* Lines 36-58 of generate_poem_for_streamlit: what follows set_seed, run with
\* the random state r1 found at the pipeline call.
AfterSetSeed(topic, max_len, num_poems, temperature, num_beams, r1, fault) ==
    LET prompt == Prompt(topic)
        args == GeneratorArgs(prompt, max_len, num_poems, num_beams, temperature)
        generated_texts == Generator(r1, args)
    IN  IF fault.at = "call"
        THEN Raise(StTryCovers("call"), fault, r1, 0, 1, 1, <<>>)
        ELSE IF fault.at = "post"
        THEN Raise(StTryCovers("post"), fault, Advance(r1), 0, 1, 1, <<>>)
        ELSE Outcome(TRUE, StreamlitPoems(prompt, generated_texts), Advance(r1),
                     0, 1, 1, FALSE, FALSE, <<>>)

generate_poem_for_streamlit(generator_pipeline, topic, max_len, num_poems, temperature, num_beams, seed_value, r, fault) ==
    IF generator_pipeline = None
    THEN Outcome(TRUE, <<PipelineMissing>>, r, 0, 0, 0, FALSE, FALSE, <<>>)
    ELSE AfterSetSeed(topic, max_len, num_poems, temperature, num_beams,
                      set_seed(r, seed_value), fault)

generate_poem(topic, model_name, max_len, num_poems, r, fault) ==
    IF fault.at = "load"
    THEN Raise(CliTryCovers("load"), fault, r, 1, 0, 0, <<>>)
    ELSE
        LET console == <<LoadedHead \o model_name \o LoadedTail>>
            r1 == set_seed(r, DefaultSeed)
            prompt == Prompt(topic)
            args == GeneratorArgs(prompt, max_len, num_poems, NumBeams, CliTemperature)
            generated_texts == Generator(r1, args)
        IN  IF fault.at = "call"
            THEN Raise(CliTryCovers("call"), fault, r1, 1, 1, 1, console)
            ELSE IF fault.at = "post"
            THEN Raise(CliTryCovers("post"), fault, Advance(r1), 1, 1, 1, console)
            ELSE Outcome(TRUE, CliPoems(prompt, generated_texts), Advance(r1),
                         1, 1, 1, FALSE, FALSE, console)

(***************************************************************************)
(* load_generator_pipeline under @st.cache_resource.                       *)
(***************************************************************************)
\* A cache that never answers: the body runs on every call.
CacheNeverHits(c, model_name) == FALSE

\* @st.cache_resource: a call whose argument has a stored value returns it
\* without running the body.
CacheHit(c, model_name) == model_name \in c

\* The call load_generator_pipeline(model_name=...): the handle it returns, the
\* store afterwards, whether the body ran, whether st.stop() halted the script
\* run, and what was shown and printed. A body that does not return stores
\* nothing.
load_generator_pipeline(c, model_name, fault) ==
    IF CacheHit(c, model_name)
    THEN [handle |-> Handle(model_name), cache |-> c, executed |-> 0,
          halted |-> FALSE, shown |-> <<>>, console |-> <<>>]
    ELSE IF fault.at = "load"
    THEN [handle |-> None, cache |-> c, executed |-> 1, halted |-> TRUE,
          shown |-> <<[kind |-> "error",
                       text |-> FatalHead \o model_name \o FatalMid \o fault.detail,
                       label |-> <<>>, height |-> 0]>>,
          console |-> <<LoadingHead \o model_name \o LoadingTail>>]
    ELSE [handle |-> Handle(model_name), cache |-> c \cup {model_name},
          executed |-> 1, halted |-> FALSE, shown |-> <<>>,
          console |-> <<LoadingHead \o model_name \o LoadingTail,
                        LoadedHead \o model_name \o LoadedOkTail \o OnCpu>>]

(***************************************************************************)
(* The state of a run and what it renders.                                 *)
(***************************************************************************)
NoRun ==
    [entry |-> "none", topic |-> <<>>, model_name |-> <<>>, max_len |-> 0,
     num_poems |-> 0, temperature |-> 0, seed_value |-> 0, fault |-> NoFault,
     loadCalls |-> 0, seedCalls |-> 0, genCalls |-> 0, cached |-> FALSE,
     returned |-> FALSE, result |-> <<>>, raised |-> FALSE, propagated |-> FALSE,
     halted |-> FALSE]

\* The inputs that determine an invocation, for comparing two invocations.
Request(r) ==
    <<IF r.entry = "button" THEN "generate_poem_for_streamlit" ELSE "generate_poem",
      r.topic, r.model_name, r.max_len, r.num_poems, r.temperature,
      r.seed_value>>

Element(kind, text, label, height) ==
    [kind |-> kind, text |-> text, label |-> label, height |-> height]

\* if "Error" in generated_poems[0]
IsErrorResult(generated_poems) == Contains(ErrorMarker, generated_poems[1])

\* The text box of poem i, with its heading when several poems were asked for,
\* and the separator after it.
PoemBox(i, poem, num_poems_param) ==
    (IF num_poems_param > 1
     THEN <<Element("markdown", PoemMarkHead \o Str(i) \o PoemMarkTail, <<>>, 0)>>
     ELSE <<>>)
    \o <<Element("text_area", poem,
                 IF num_poems_param > 1 THEN PoemOutput \o <<" ">> \o Str(i)
                 ELSE PoemOutput,
                 150 + Count(poem, "\n") * 20),
         Element("markdown", Separator, <<>>, 0)>>

RECURSIVE PoemBoxes(_, _, _)
PoemBoxes(generated_poems, n, num_poems_param) ==
    IF n = 0 THEN <<>>
    ELSE PoemBoxes(generated_poems, n - 1, num_poems_param)
         \o PoemBox(n, generated_poems[n], num_poems_param)

\* A test that takes every topic as given.
TopicAlwaysGiven(user_topic) == TRUE

\* if user_topic: a string is true unless it is empty.
TopicGiven(user_topic) == user_topic # <<>>

\* Lines 104-113: the subheader, then the error block or the text boxes.
Render(user_topic, generated_poems, num_poems_param) ==
    <<Element("subheader", SubheaderHead \o Capitalize(user_topic) \o <<"'">>, <<>>, 0)>>
    \o (IF IsErrorResult(generated_poems)
        THEN <<Element("error", generated_poems[1], <<>>, 0)>>
        ELSE PoemBoxes(generated_poems, Len(generated_poems), num_poems_param))

\* for poem in generated_poems: print("\n" + poem)
RECURSIVE PrintedPoems(_, _)
PrintedPoems(generated_poems, n) ==
    IF n = 0 THEN <<>>
    ELSE PrintedPoems(generated_poems, n - 1) \o <<<<"\n">> \o generated_poems[n]>>

(***************************************************************************)
(* The button handler of app_streamlit.py (one script run).                *)
(***************************************************************************)
StHandler(user_topic, max_len_param, temp_param, num_poems_param, seed_param, fault) ==
    IF ~TopicGiven(user_topic)
    THEN /\ ui' = <<Element("warning", WarningText, <<>>, 0)>>
         /\ run' = [NoRun EXCEPT !.entry = "button"]
         /\ stdout' = <<>>
         /\ UNCHANGED <<cache, loads, rng>>
    ELSE
        \E base \in {[NoRun EXCEPT !.entry = "button", !.topic = user_topic,
                                    !.model_name = Gpt2, !.fault = fault]},
           L \in {load_generator_pipeline(cache, Gpt2, fault)} :
            IF L.halted
            THEN /\ ui' = L.shown
                 /\ run' = [base EXCEPT !.loadCalls = L.executed, !.halted = TRUE]
                 /\ stdout' = L.console
                 /\ cache' = L.cache
                 /\ loads' = loads + L.executed
                 /\ UNCHANGED rng
            ELSE
                \E G \in {generate_poem_for_streamlit(L.handle, user_topic,
                             max_len_param, num_poems_param, temp_param, NumBeams,
                             seed_param, rng, fault)} :
                    /\ run' = [base EXCEPT !.max_len = max_len_param,
                                           !.num_poems = num_poems_param,
                                           !.temperature = temp_param,
                                           !.seed_value = seed_param,
                                           !.loadCalls = L.executed,
                                           !.cached = (L.executed = 0),
                                           !.seedCalls = G.seedCalls,
                                           !.genCalls = G.genCalls,
                                           !.returned = G.returned,
                                           !.result = G.poems,
                                           !.raised = G.raised,
                                           !.propagated = G.propagated]
                    /\ ui' = IF G.returned
                             THEN Render(user_topic, G.poems, num_poems_param)
                             ELSE <<>>
                    /\ stdout' = L.console
                    /\ cache' = L.cache
                    /\ loads' = loads + L.executed
                    /\ rng' = G.rng

\* A load can run, and so can fail, only when the store has no value.
WouldLoad == ~CacheHit(cache, Gpt2)

StWarn ==
    /\ program = "app_streamlit"
    /\ \E max_len_param \in MaxLens, temp_param \in Temperatures,
          num_poems_param \in 1..NumPoemsMax, seed_param \in SeedValues :
            StHandler(<<>>, max_len_param, temp_param, num_poems_param, seed_param,
                      NoFault)
    /\ UNCHANGED <<program, thr, norm>>

StLoadFails ==
    /\ program = "app_streamlit"
    /\ WouldLoad
    /\ loads < MaxLoads
    /\ \E user_topic \in Topics \ {<<>>}, max_len_param \in MaxLens,
          temp_param \in Temperatures, num_poems_param \in 1..NumPoemsMax,
          seed_param \in SeedValues, fault \in LoadFaults :
            StHandler(user_topic, max_len_param, temp_param, num_poems_param,
                      seed_param, fault)
    /\ UNCHANGED <<program, thr, norm>>

StGenerate ==
    /\ program = "app_streamlit"
    /\ WouldLoad => loads < MaxLoads
    /\ \E user_topic \in Topics \ {<<>>}, max_len_param \in MaxLens,
          temp_param \in Temperatures, num_poems_param \in 1..NumPoemsMax,
          seed_param \in SeedValues :
            StHandler(user_topic, max_len_param, temp_param, num_poems_param,
                      seed_param, NoFault)
    /\ UNCHANGED <<program, thr, norm>>

StGenerateFails ==
    /\ program = "app_streamlit"
    /\ WouldLoad => loads < MaxLoads
    /\ \E user_topic \in Topics \ {<<>>}, max_len_param \in MaxLens,
          temp_param \in Temperatures, num_poems_param \in 1..NumPoemsMax,
          seed_param \in SeedValues, fault \in GenFaults :
            StHandler(user_topic, max_len_param, temp_param, num_poems_param,
                      seed_param, fault)
    /\ UNCHANGED <<program, thr, norm>>

(***************************************************************************)
(* poem_bot.py: the __main__ flow of the script, and calls of generate_poem *)
(* by a program that imported the module.                                  *)
(***************************************************************************)
InputPrompt == <<"E", "n", "t", "e", "r", " ", "a", " ", "t", "o", "p", "i", "c", " ", "f", "o", "r", " ", "y", "o", "u", "r", " ", "p", "o", "e", "m", " ", "(", "e", ".", "g", ".", ",", " ", "'", "t", "h", "e", " ", "o", "c", "e", "a", "n", "'", ",", " ", "'", "a", " ", "l", "o", "n", "e", "l", "y", " ", "s", "t", "a", "r", "'", ")", ":", " ">>

CliRun(entry, topic, model_name, max_len, num_poems, fault, G) ==
    [NoRun EXCEPT !.entry = entry, !.topic = topic, !.model_name = model_name,
                  !.max_len = max_len, !.num_poems = num_poems,
                  !.temperature = CliTemperature, !.seed_value = DefaultSeed,
                  !.fault = fault, !.loadCalls = G.loadCalls,
                  !.seedCalls = G.seedCalls, !.genCalls = G.genCalls,
                  !.returned = G.returned, !.result = G.poems,
                  !.raised = G.raised, !.propagated = G.propagated]

\* Lines 54-65.
Main(user_topic, fault) ==
    IF ~TopicGiven(user_topic)
    THEN /\ stdout' = <<Welcome, InputPrompt, NoTopic>>
         /\ run' = [NoRun EXCEPT !.entry = "main"]
         /\ UNCHANGED <<cache, loads, rng, ui>>
    ELSE
        \E G \in {generate_poem(user_topic, Gpt2, MainMaxLen, MainNumPoems, rng, fault)} :
            /\ stdout' = <<Welcome, InputPrompt>> \o G.console
                         \o (IF G.returned THEN PrintedPoems(G.poems, Len(G.poems))
                             ELSE <<>>)
            /\ run' = CliRun("main", user_topic, Gpt2, MainMaxLen, MainNumPoems, fault, G)
            /\ loads' = loads + G.loadCalls
            /\ rng' = G.rng
            /\ UNCHANGED <<cache, ui>>

\* The script runs its __main__ block once, when the process starts.
MainNoTopic ==
    /\ program = "poem_bot"
    /\ run.entry = "none"
    /\ Main(<<>>, NoFault)
    /\ UNCHANGED <<program, thr, norm>>

MainGenerates ==
    /\ program = "poem_bot"
    /\ run.entry = "none"
    /\ \E user_topic \in Topics \ {<<>>} : Main(user_topic, NoFault)
    /\ UNCHANGED <<program, thr, norm>>

MainFails ==
    /\ program = "poem_bot"
    /\ run.entry = "none"
    /\ \E user_topic \in Topics \ {<<>>}, fault \in LoadFaults \cup GenFaults :
            Main(user_topic, fault)
    /\ UNCHANGED <<program, thr, norm>>

\* generate_poem(topic, model_name, max_len, num_poems) called by a program
\* that imported poem_bot.
Call(topic, model_name, max_len, num_poems, fault) ==
    \E G \in {generate_poem(topic, model_name, max_len, num_poems, rng, fault)} :
        /\ stdout' = G.console
        /\ run' = CliRun("call", topic, model_name, max_len, num_poems, fault, G)
        /\ loads' = loads + G.loadCalls
        /\ rng' = G.rng
        /\ UNCHANGED <<cache, ui>>

CallGeneratePoem ==
    /\ program = "import poem_bot"
    /\ loads < MaxLoads
    /\ \E topic \in Topics, max_len \in MaxLens, num_poems \in 1..NumPoemsMax :
            Call(topic, Gpt2, max_len, num_poems, NoFault)
    /\ UNCHANGED <<program, thr, norm>>

CallGeneratePoemFails ==
    /\ program = "import poem_bot"
    /\ loads < MaxLoads
    /\ \E topic \in Topics, max_len \in MaxLens, num_poems \in 1..NumPoemsMax,
          fault \in LoadFaults \cup GenFaults :
            Call(topic, Gpt2, max_len, num_poems, fault)
    /\ UNCHANGED <<program, thr, norm>>

(***************************************************************************)
(* A process running one of the programs, one handler run or call at a     *)
(* time.                                                                   *)
(***************************************************************************)
Programs == {"app_streamlit", "poem_bot", "import poem_bot"}
NoThreads == <<>>
NoNorm == [fn |-> "none", topic |-> <<>>, generated_texts |-> <<>>,
           applied |-> FALSE, poems |-> <<>>]

Init ==
    /\ program \in Programs
    /\ cache = {}
    /\ loads = 0
    /\ rng \in FreshRng
    /\ run = NoRun
    /\ ui = <<>>
    /\ stdout = <<>>
    /\ thr = NoThreads
    /\ norm = NoNorm

Next ==
    \/ StWarn
    \/ StLoadFails
    \/ StGenerate
    \/ StGenerateFails
    \/ MainNoTopic
    \/ MainGenerates
    \/ MainFails
    \/ CallGeneratePoem
    \/ CallGeneratePoemFails

Spec == Init /\ [][Next]_vars

(***************************************************************************)
(* Two sessions of the Streamlit process inside generate_poem_for_streamlit *)
(* at the same time, sharing the cached handle and the process-wide random *)
(* state. A step is one call: set_seed, then the pipeline call with the    *)
(* loop and the return. Each call is taken as one atomic step; finer       *)
(* interleavings only add ways for the sessions to disturb each other.     *)
(***************************************************************************)
Threads == {1, 2}
Other(t) == CHOOSE o \in Threads : o # t

Idle == [pc |-> "idle", topic |-> <<>>, max_len |-> 0, num_poems |-> 0,
         temperature |-> 0, seed_value |-> 0, result |-> <<>>, under |-> 0,
         alone |-> TRUE]

\* The other session interfered when it acted between this session's set_seed
\* and its pipeline call.
Interfered(o) == IF o.pc = "seeded" THEN [o EXCEPT !.alone = FALSE] ELSE o

\* Line 34, entered with the arguments of a click.
ThrSetSeed(t) ==
    /\ thr[t].pc = "idle"
    /\ \E max_len \in MaxLens, num_poems \in 1..2, temperature \in Temperatures,
          seed_value \in SeedValues :
        /\ rng' = set_seed(rng, seed_value)
        /\ thr' = [thr EXCEPT ![t] = [Idle EXCEPT !.pc = "seeded", !.topic = Owl,
                                                  !.max_len = max_len,
                                                  !.num_poems = num_poems,
                                                  !.temperature = temperature,
                                                  !.seed_value = seed_value],
                              ![Other(t)] = Interfered(@)]
    /\ UNCHANGED <<program, cache, loads, run, ui, stdout, norm>>

\* Lines 36-58.
ThrGenerate(t) ==
    /\ thr[t].pc = "seeded"
    /\ \E G \in {AfterSetSeed(thr[t].topic, thr[t].max_len, thr[t].num_poems,
                              thr[t].temperature, NumBeams, rng, NoFault)} :
        /\ rng' = G.rng
        /\ thr' = [thr EXCEPT ![t] = [@ EXCEPT !.pc = "done", !.result = G.poems,
                                               !.under = rng],
                              ![Other(t)] = Interfered(@)]
    /\ UNCHANGED <<program, cache, loads, run, ui, stdout, norm>>

\* The script run of the session ends; the session can click again.
ThrFinish(t) ==
    /\ thr[t].pc = "done"
    /\ thr' = [thr EXCEPT ![t] = Idle]
    /\ UNCHANGED <<program, cache, loads, rng, run, ui, stdout, norm>>

ConcInit ==
    /\ program = "app_streamlit"
    /\ cache = {Gpt2}
    /\ loads = 1
    /\ rng \in FreshRng
    /\ run = NoRun
    /\ ui = <<>>
    /\ stdout = <<>>
    /\ thr = [t \in Threads |-> Idle]
    /\ norm = NoNorm

ConcNext == \E t \in Threads : ThrSetSeed(t) \/ ThrGenerate(t) \/ ThrFinish(t)

ConcSpec == ConcInit /\ [][ConcNext]_vars

(***************************************************************************)
(* The output normaliser on given raw generated strings.                   *)
(***************************************************************************)
Alphabet == {"a", " ", "\n"}
Tails(n) == UNION {[1..k -> Alphabet] : k \in 0..n}
NormTopics == {<<>>, Owl}

\* Raw strings: the echoed prompt followed by every short continuation, the
\* example of the specification, a continuation with a tab, a string shorter
\* than the prompt, and one with a character in front of the echoed prompt.
RawTexts(prompt) ==
    {prompt \o x : x \in Tails(MaxTail)}
    \cup {prompt \o ExampleTail, prompt \o TideTail,
          SubSeq(prompt, 1, Len(prompt) - 1), <<"x">> \o prompt \o <<"a", " ">>}

FillerTexts(prompt) == {prompt \o <<" ">>, prompt \o <<"a", "\n">>}

\* Lists of n outputs whose k-th is any raw string and whose others are one filler.
NormLists(prompt) ==
    UNION {{[i \in 1..p[1] |-> [generated_text |-> IF i = p[2] THEN x ELSE f]] :
                x \in RawTexts(prompt), f \in FillerTexts(prompt)} :
           p \in {q \in (1..MaxRaws) \X (1..MaxRaws) : q[2] <= q[1]}}

NormInit ==
    /\ program = "import poem_bot"
    /\ cache = {}
    /\ loads = 0
    /\ rng \in {1}
    /\ run = NoRun
    /\ ui = <<>>
    /\ stdout = <<>>
    /\ thr = NoThreads
    /\ \E fn \in {"generate_poem_for_streamlit", "generate_poem"},
          topic \in NormTopics :
            \E generated_texts \in NormLists(Prompt(topic)) :
                norm = [fn |-> fn, topic |-> topic, generated_texts |-> generated_texts,
                        applied |-> FALSE, poems |-> <<>>]

\* Lines 49-58 of app_streamlit.py.
NormStreamlit ==
    /\ norm.fn = "generate_poem_for_streamlit"
    /\ ~norm.applied
    /\ norm' = [norm EXCEPT !.applied = TRUE,
                            !.poems = StreamlitPoems(Prompt(norm.topic),
                                                     norm.generated_texts)]
    /\ UNCHANGED <<program, cache, loads, rng, run, ui, stdout, thr>>

\* Lines 41-49 of poem_bot.py.
NormCli ==
    /\ norm.fn = "generate_poem"
    /\ ~norm.applied
    /\ norm' = [norm EXCEPT !.applied = TRUE,
                            !.poems = CliPoems(Prompt(norm.topic),
                                               norm.generated_texts)]
    /\ UNCHANGED <<program, cache, loads, rng, run, ui, stdout, thr>>

NormNext == NormStreamlit \/ NormCli

NormSpec == NormInit /\ [][NormNext]_vars

(***************************************************************************)
(* Properties.                                                             *)
(***************************************************************************)
\* The invocation of the last run called the generator and nothing raised.
Succeeded(r) == r.returned /\ r.fault.at = "none" /\ r.genCalls = 1

\* The last run invoked generate_poem or generate_poem_for_streamlit and an
\* exception was raised inside the invocation.
GenerationRaised(r) ==
    \/ r.fault.at \in {"call", "post"}
    \/ r.entry \in {"main", "call"} /\ r.fault.at = "load"

ShownKinds == {ui[i].kind : i \in 1..Len(ui)}

\* c is what is left of raw after dropping its first plen characters, trimming
\* whitespace at both ends and keeping the text before the first "\n\n": the
\* kept text occupies raw[lo..lo+Len(c)-1] and the trimmed text raw[lo..hi].
IsCleaned(raw, plen, c) ==
    LET p == IF plen > Len(raw) THEN Len(raw) ELSE plen
    IN  \E lo \in (p + 1)..(Len(raw) + 1), hi \in p..Len(raw) :
            /\ hi >= lo - 1
            /\ \A j \in (p + 1)..(lo - 1) : raw[j] \in Whitespace
            /\ \A j \in (hi + 1)..Len(raw) : raw[j] \in Whitespace
            /\ lo <= hi => (raw[lo] \notin Whitespace /\ raw[hi] \notin Whitespace)
            /\ Len(c) <= hi - lo + 1
            /\ \A j \in 1..Len(c) : c[j] = raw[lo + j - 1]
            /\ \A j \in lo..(lo + Len(c) - 1) :
                    ~(raw[j] = "\n" /\ j + 1 <= hi /\ raw[j + 1] = "\n")
            /\ \/ Len(c) = hi - lo + 1
               \/ /\ lo + Len(c) + 1 <= hi
                  /\ raw[lo + Len(c)] = "\n"
                  /\ raw[lo + Len(c) + 1] = "\n"

\* The label line generate_poem puts in front of poem i (i < 10).
LabelLine(i) == LabelHead \o <<Digits[i + 1]>> \o LabelTail

\* The cleaned text of the i-th poem of the normaliser run: the poem itself in
\* the Streamlit function, what follows the label line in generate_poem.
CleanedAt(i) ==
    IF norm.fn = "generate_poem"
    THEN Slice(norm.poems[i], Len(LabelLine(i)))
    ELSE norm.poems[i]

RawAt(i) == norm.generated_texts[i].generated_text

\* C1: output normalisation. In both functions there is one poem per raw
\* string, in the same order; the i-th cleaned poem is the i-th raw string
\* without its first len(prompt) characters, trimmed, cut before the first
\* double newline; generate_poem puts the label line "--- Poem i ---" in front
\* of it; and prompt + "Hello world\n\nExtra stanza" gives "Hello world".
C1_OutputNormalisation ==
    norm.applied =>
        /\ Len(norm.poems) = Len(norm.generated_texts)
        /\ \A i \in 1..Len(norm.poems) :
            /\ IsCleaned(RawAt(i), Len(Prompt(norm.topic)), CleanedAt(i))
            /\ norm.fn = "generate_poem" =>
                    SubSeq(norm.poems[i], 1, Len(LabelLine(i))) = LabelLine(i)
            /\ RawAt(i) = Prompt(norm.topic) \o ExampleTail => CleanedAt(i) = HelloWorld

\* C1 witness: generate_poem normalised two raw strings, the second of them
\* the example, and labelled it as poem 2.
C1_Witness ==
    /\ norm.applied
    /\ norm.fn = "generate_poem"
    /\ Len(norm.poems) = 2
    /\ RawAt(2) = Prompt(norm.topic) \o ExampleTail
    /\ RawAt(1) = Prompt(norm.topic) \o <<" ">>
    /\ norm.poems[2] = LabelLine(2) \o HelloWorld
    /\ norm.poems[1] = LabelLine(1)

\* C2: an invocation in which an exception was raised returns, to its caller,
\* a result of exactly one element, "Error generating poem: " followed by the
\* text of the exception; nothing propagates and no poem comes with it.
C2_RaiseBecomesErrorResult ==
    (run.entry # "none" /\ ~run.halted /\ GenerationRaised(run)) =>
        /\ ~run.propagated
        /\ run.returned
        /\ Len(run.result) = 1
        /\ run.result[1] = ErrorPrefix \o run.fault.detail

\* C2 witness: the Streamlit function caught an exception raised in its loop
\* over the outputs, after the generator call.
C2_Witness ==
    /\ run.entry = "button"
    /\ run.fault.at = "post"
    /\ run.genCalls = 1
    /\ run.result = <<ErrorPrefix \o KeyErr>>

\* A load was executed in the last run and failed.
LoadFailed(r) == r.fault.at = "load" /\ r.loadCalls = 1

C4_ResultLength ==
    (Succeeded(run) /\ run.num_poems \in 1..5) => Len(run.result) = run.num_poems

\* C4 witness: five poems asked of the Streamlit function, five returned.
C4_Witness ==
    /\ run.entry = "button"
    /\ Succeeded(run)
    /\ run.num_poems = 5
    /\ Len(run.result) = 5

\* The last run was an entry point run with an empty topic.
EmptyTopicRun(r) == r.entry \in {"button", "main"} /\ r.topic = <<>>

\* C5: a run of an entry point with an empty topic loads no model, calls
\* neither set_seed nor the generator, leaves the cache, the load count and
\* the random state as they were, and shows the notice: "No topic provided.
\* Exiting." on the command line, the warning in the form.
C5_EmptyTopicNoModel ==
    [][EmptyTopicRun(run') =>
        /\ run'.loadCalls = 0 /\ run'.seedCalls = 0 /\ run'.genCalls = 0
        /\ ~run'.returned
        /\ cache' = cache /\ loads' = loads /\ rng' = rng
        /\ run'.entry = "main" => stdout' = <<Welcome, InputPrompt, NoTopic>>
        /\ run'.entry = "button" => ui' = <<Element("warning", WarningText, <<>>, 0)>>
      ]_vars

\* C5 witness: the form showed the warning for an empty topic after the model
\* had been loaded by an earlier run.
C5_Witness ==
    /\ EmptyTopicRun(run)
    /\ run.entry = "button"
    /\ ShownKinds = {"warning"}
    /\ cache = {Gpt2}

\* The poems the generator's output gives when the random state at the call
\* is the one the request's own seed sets.
PoemsUnderOwnSeed(entry, topic, max_len, num_poems, temperature, seed_value) ==
    LET prompt == Prompt(topic)
        outs == Generator(seed_value % RngMod,
                          GeneratorArgs(prompt, max_len, num_poems, NumBeams, temperature))
    IN  IF entry = "button" THEN StreamlitPoems(prompt, outs) ELSE CliPoems(prompt, outs)

ExpectedPoems(r) ==
    PoemsUnderOwnSeed(r.entry, r.topic, r.max_len, r.num_poems, r.temperature,
                      r.seed_value)

\* C6: with the generator a function of the random state and its arguments,
\* the result of a successful invocation is a function of its seed and
\* parameters alone, whatever ran before it in the process; so two successive
\* successful invocations with the same seed and parameters return the same
\* sequence.
C6_Deterministic ==
    /\ [](Succeeded(run) => run.result = ExpectedPoems(run))
    /\ [][(Succeeded(run) /\ Succeeded(run') /\ Request(run') = Request(run))
            => run'.result = run.result]_vars

\* C6 witness: a successful invocation with seed 0 that used the cached
\* handle, so that an earlier run of the process went through set_seed and the
\* generator before it.
C6_Witness ==
    /\ run.entry = "button"
    /\ Succeeded(run)
    /\ run.cached
    /\ run.seed_value = 0
    /\ run.result = ExpectedPoems(run)

\* C7: the seed is process-wide. An invocation that no other session disturbed
\* between its set_seed and its pipeline call ran the generator under its own
\* seed and returns what it returns when run alone; the witness is the
\* interleaving in which the other session's set_seed came in between.
C7_AloneRunsUnderOwnSeed ==
    \A t \in DOMAIN thr :
        (thr[t].pc = "done" /\ thr[t].alone) =>
            /\ thr[t].under = thr[t].seed_value % RngMod
            /\ thr[t].result =
                 PoemsUnderOwnSeed("button", thr[t].topic, thr[t].max_len,
                                   thr[t].num_poems, thr[t].temperature,
                                   thr[t].seed_value)

\* C7 witness: an invocation whose pipeline call ran under the seed the other
\* session had just set, different from its own, and whose result differs from
\* the one it returns when run alone.
C7_Witness ==
    \E t \in DOMAIN thr :
        /\ thr[t].pc = "done"
        /\ ~thr[t].alone
        /\ thr[Other(t)].pc = "seeded"
        /\ thr[Other(t)].seed_value # thr[t].seed_value
        /\ thr[t].under = thr[Other(t)].seed_value % RngMod
        /\ thr[t].result #
             PoemsUnderOwnSeed("button", thr[t].topic, thr[t].max_len,
                               thr[t].num_poems, thr[t].temperature,
                               thr[t].seed_value)

\* C8 as claimed: the load of the model identifier is executed at most once in
\* a process.
C8_LoadAtMostOnce == loads <= 1

\* The run invoked generate_poem (poem_bot) or got past the topic test (form).
AskedForPoem(r) ==
    \/ r.entry = "call"
    \/ r.entry \in {"main", "button"} /\ r.topic # <<>>

\* C8 amended: in the Streamlit process, once a load of the model identifier
\* has succeeded, no run executes the load again and every later request uses
\* the stored handle, which is never dropped; a load that failed stores
\* nothing, so the next request executes the load again. generate_poem does
\* not memoize: each call executes the load.
C8_MemoizedAfterSuccess ==
    [][/\ (program = "app_streamlit" /\ Gpt2 \in cache) =>
            /\ cache' = cache
            /\ loads' = loads
            /\ run'.loadCalls = 0
            /\ AskedForPoem(run') => run'.cached
       /\ (program = "app_streamlit" /\ Gpt2 \notin cache /\ AskedForPoem(run')) =>
            /\ run'.loadCalls = 1
            /\ loads' = loads + 1
            /\ ~run'.cached
            /\ cache' = IF LoadFailed(run') THEN cache ELSE {Gpt2}
       /\ (program # "app_streamlit" /\ AskedForPoem(run')) =>
            /\ run'.loadCalls = 1
            /\ loads' = loads + 1
      ]_vars

\* C8 witness: after one failed and one successful load, a request was served
\* from the stored handle without loading.
C8_Witness ==
    /\ program = "app_streamlit"
    /\ loads = 2
    /\ run.cached
    /\ run.loadCalls = 0
    /\ Succeeded(run)

IsTextArea(e) == e.kind = "text_area"

\* C9: in the form the error block is shown exactly when generation failed,
\* and after a successful generation every returned poem is in a text box of
\* its own, whatever the poems contain.
C9_ErrorBlockIffFailed ==
    (run.entry = "button" /\ run.returned) =>
        /\ ("error" \in ShownKinds) <=> GenerationRaised(run)
        /\ Succeeded(run) =>
            LET boxes == SelectSeq(ui, IsTextArea)
            IN  /\ Len(boxes) = Len(run.result)
                /\ \A i \in 1..Len(boxes) : boxes[i].text = run.result[i]

\* The text the i-th raw string leaves after its first len(prompt) characters
\* contains a double newline once trimmed.
CutAt(i) == Contains(DoubleNewline, Strip(Slice(RawAt(i), Len(Prompt(norm.topic)))))

\* C10 as claimed: no cleaned poem starts or ends with whitespace.
C10_NoSurroundingWhitespace ==
    norm.applied =>
        \A i \in 1..Len(norm.poems) :
            CleanedAt(i) # <<>> =>
                /\ CleanedAt(i)[1] \notin Whitespace
                /\ CleanedAt(i)[Len(CleanedAt(i))] \notin Whitespace

\* C10 amended: no cleaned poem starts with whitespace, and one that was not
\* cut at a double newline does not end with whitespace either; whitespace
\* that stood right before the double newline stays at the end of a cut poem.
C10_NoLeadingWhitespace ==
    norm.applied =>
        \A i \in 1..Len(norm.poems) :
            CleanedAt(i) # <<>> =>
                /\ CleanedAt(i)[1] \notin Whitespace
                /\ ~CutAt(i) => CleanedAt(i)[Len(CleanedAt(i))] \notin Whitespace

\* C10 witness: "a \n\na" after the prompt is cleaned to "a ", which ends with
\* a space.
C10_Witness ==
    /\ norm.applied
    /\ norm.fn = "generate_poem_for_streamlit"
    /\ Len(norm.poems) = 1
    /\ RawAt(1) = Prompt(norm.topic) \o <<"a", " ", "\n", "\n", "a">>
    /\ norm.poems[1] = <<"a", " ">>

====
